---- MODULE Spec2Model ----
(***************************************************************************)
(* A model of netlogo-world-parser: the row loop of `parse` (src/src/lib.rs) *)
(* with the section classifier, the header cache, the per-section binding   *)
(* of a csv record and the accumulation into NetLogoWorld.                   *)
(*                                                                           *)
(* A cell is a sequence of one-character strings, a record is a sequence of  *)
(* cells. Parsing of integers, value coercion and parse_output work on the   *)
(* characters.                                                               *)
(***************************************************************************)
EXTENDS Integers, Sequences, FiniteSets, TLC

VARIABLES
    pc,        \* "start" | "loop" | "done": position of parse
    section,   \* `section` of parse: the active Section
    headers,   \* `headers` of parse: None or Some(record)
    world,     \* `world` of parse: the NetLogoWorld being accumulated
    result,    \* what parse returned: Pending, Ok(world), Err or a panic
    nrows,     \* number of records the csv reader has been asked for so far
    last,      \* the record consumed by the latest step and the branch it took
    outAll,    \* history: the pieces parse_output produced from every OUTPUT row
    nbound,    \* history: per section, the records that went through the match
    iter,      \* the order in which the custom map stored last iterates
               \* (followed in the "values" family, <<>> elsewhere)
    family,    \* the family of input files the stream is drawn from
    file,      \* "pair" family: the records of the input after its first line
    twin       \* "pair" family: a second call of parse on the same input

vars ==
    <<pc, section, headers, world, result, nrows, last, outAll, nbound, iter,
      family, file, twin>>

----------------------------------------------------------------------------
(* Bounds of the model *)

\* the longest stream of records handed to the loop, per family of inputs
MaxAgentRows == 6
MaxGlobalsRows == 6
MaxOutputRows == 4
MaxMarkerRows == 3
MaxValueRows == 3
MaxPairRows == 3

----------------------------------------------------------------------------
(* Characters and integer parsing (str::parse as csv's deserialize_i64 /     *)
(* deserialize_u64 call it)                                                  *)

Digits == {"0", "1", "2", "3", "4", "5", "6", "7", "8", "9"}

DigitVal(c) ==
    CASE c = "0" -> 0 [] c = "1" -> 1 [] c = "2" -> 2 [] c = "3" -> 3
      [] c = "4" -> 4 [] c = "5" -> 5 [] c = "6" -> 6 [] c = "7" -> 7
      [] c = "8" -> 8 [] c = "9" -> 9

Tail2(s) == SubSeq(s, 2, Len(s))

AllDigits(s) == Len(s) >= 1 /\ \A i \in 1..Len(s) : s[i] \in Digits

RECURSIVE DigitsValue(_, _)
DigitsValue(s, acc) ==
    IF s = <<>> THEN acc ELSE DigitsValue(Tail2(s), 10 * acc + DigitVal(s[1]))

ParseErr == [ok |-> FALSE, v |-> 0]
ParseOk(n) == [ok |-> TRUE, v |-> n]

\* <unsigned>::from_str: an optional '+', then one or more digits
ParseUnsigned(cell) ==
    LET body == IF cell # <<>> /\ cell[1] = "+" THEN Tail2(cell) ELSE cell
    IN  IF AllDigits(body) THEN ParseOk(DigitsValue(body, 0)) ELSE ParseErr

\* i64::from_str: an optional '+' or '-', then one or more digits
ParseI64(cell) ==
    LET signed == cell # <<>> /\ cell[1] \in {"+", "-"}
        body == IF signed THEN Tail2(cell) ELSE cell
    IN  IF ~AllDigits(body) THEN ParseErr
        ELSE IF signed /\ cell[1] = "-" THEN ParseOk(0 - DigitsValue(body, 0))
        ELSE ParseOk(DigitsValue(body, 0))

----------------------------------------------------------------------------
(* Value: the untagged enum of src/src/value.rs, filled from a cell through  *)
(* the csv deserializer's type inference (bool, u64, i64, f64, str) and then *)
(* the first variant of Value, in declaration order, that accepts it         *)

BoolV(b) == [tag |-> "Bool", b |-> b, n |-> 0, s |-> <<>>]
U64V(n) == [tag |-> "U64", b |-> FALSE, n |-> n, s |-> <<>>]
I64V(n) == [tag |-> "I64", b |-> FALSE, n |-> n, s |-> <<>>]
FloatV(s) == [tag |-> "Float", b |-> FALSE, n |-> 0, s |-> s]
StringV(s) == [tag |-> "String", b |-> FALSE, n |-> 0, s |-> s]

\* the mantissa of a decimal literal: digits with at most one '.', at least
\* one digit
IsMantissa(s) ==
    /\ \A i \in 1..Len(s) : s[i] \in Digits \cup {"."}
    /\ Cardinality({i \in 1..Len(s) : s[i] = "."}) <= 1
    /\ \E i \in 1..Len(s) : s[i] \in Digits

\* the exponent of a decimal literal after its 'e': an optional sign, digits
IsExponent(s) ==
    AllDigits(IF s # <<>> /\ s[1] \in {"+", "-"} THEN Tail2(s) ELSE s)

FloatWords ==
    {<<"i", "n", "f">>, <<"i", "n", "f", "i", "n", "i", "t", "y">>,
     <<"n", "a", "n">>, <<"N", "a", "N">>}

\* f64::from_str: an optional sign, then inf, infinity or nan, or a mantissa
\* with an optional exponent (the words in the spellings above only)
IsFloat(cell) ==
    LET signed == cell # <<>> /\ cell[1] \in {"+", "-"}
        body == IF signed THEN Tail2(cell) ELSE cell
        es == {i \in 1..Len(body) : body[i] \in {"e", "E"}}
    IN  \/ body \in FloatWords
        \/ IsMantissa(body)
        \/ \E i \in es : /\ IsMantissa(SubSeq(body, 1, i - 1))
                          /\ IsExponent(SubSeq(body, i + 1, Len(body)))

\* faulty variant, for sensitivity: the signed variant is tried before the
\* unsigned one
CoerceSignedFirst(cell) ==
    IF cell = <<"t", "r", "u", "e">> THEN BoolV(TRUE)
    ELSE IF cell = <<"f", "a", "l", "s", "e">> THEN BoolV(FALSE)
    ELSE IF ParseI64(cell).ok THEN I64V(ParseI64(cell).v)
    ELSE IF ParseUnsigned(cell).ok THEN U64V(ParseUnsigned(cell).v)
    ELSE IF IsFloat(cell) THEN FloatV(cell)
    ELSE StringV(cell)

Coerce(cell) ==
    IF cell = <<"t", "r", "u", "e">> THEN BoolV(TRUE)
    ELSE IF cell = <<"f", "a", "l", "s", "e">> THEN BoolV(FALSE)
    ELSE IF ParseUnsigned(cell).ok THEN U64V(ParseUnsigned(cell).v)
    ELSE IF ParseI64(cell).ok THEN I64V(ParseI64(cell).v)
    ELSE IF IsFloat(cell) THEN FloatV(cell)
    ELSE StringV(cell)

----------------------------------------------------------------------------
(* Section, its wire names (rename_all = "SCREAMING_SNAKE_CASE") and         *)
(* has_headers                                                               *)

Sections ==
    {"Header", "RandomState", "Globals", "Turtles", "Patches", "Links",
     "Output", "Plots", "Extenstions"}

WireName(s) ==
    CASE s = "Header" -> <<"H", "E", "A", "D", "E", "R">>
      [] s = "RandomState" ->
            <<"R", "A", "N", "D", "O", "M", "_", "S", "T", "A", "T", "E">>
      [] s = "Globals" -> <<"G", "L", "O", "B", "A", "L", "S">>
      [] s = "Turtles" -> <<"T", "U", "R", "T", "L", "E", "S">>
      [] s = "Patches" -> <<"P", "A", "T", "C", "H", "E", "S">>
      [] s = "Links" -> <<"L", "I", "N", "K", "S">>
      [] s = "Output" -> <<"O", "U", "T", "P", "U", "T">>
      [] s = "Plots" -> <<"P", "L", "O", "T", "S">>
      [] s = "Extenstions" ->
            <<"E", "X", "T", "E", "N", "S", "T", "I", "O", "N", "S">>

NoSection == "none"

\* faulty variant, for sensitivity: the variant name is matched without
\* regard to case
LowerOf(c) ==
    CASE c = "A" -> "a" [] c = "B" -> "b" [] c = "C" -> "c" [] c = "D" -> "d"
      [] c = "E" -> "e" [] c = "G" -> "g" [] c = "H" -> "h" [] c = "I" -> "i"
      [] c = "K" -> "k" [] c = "L" -> "l" [] c = "M" -> "m" [] c = "N" -> "n"
      [] c = "O" -> "o" [] c = "P" -> "p" [] c = "R" -> "r" [] c = "S" -> "s"
      [] c = "T" -> "t" [] c = "U" -> "u" [] c = "X" -> "x" [] OTHER -> c

Lowered(cell) == [i \in 1..Len(cell) |-> LowerOf(cell[i])]

DeserializeSectionAnyCase(record) ==
    IF record # <<>>
         /\ \E s \in Sections : Lowered(WireName(s)) = Lowered(record[1])
    THEN CHOOSE s \in Sections : Lowered(WireName(s)) = Lowered(record[1])
    ELSE NoSection

\* record.deserialize::<Section>(None): the csv deserializer takes the
\* record's first field as the variant name and reads no further field
DeserializeSection(record) ==
    IF record # <<>> /\ \E s \in Sections : WireName(s) = record[1]
    THEN CHOOSE s \in Sections : WireName(s) = record[1]
    ELSE NoSection

\* faulty variant, for sensitivity: LINKS is taken to carry no header row
has_headers_links_bare(s) ==
    s \notin {"Header", "Output", "Plots", "Extenstions", "Links"}

\* faulty variant, for sensitivity: PLOTS is taken to carry a header row
has_headers_plots(s) == s \notin {"Header", "Output", "Extenstions"}

has_headers(s) == s \notin {"Header", "Output", "Plots", "Extenstions"}

----------------------------------------------------------------------------
(* Column names of the fixed fields (rename_all = "kebab-case") and their    *)
(* declared types                                                            *)

min_pxcor == <<"m", "i", "n", "-", "p", "x", "c", "o", "r">>
max_pxcor == <<"m", "a", "x", "-", "p", "x", "c", "o", "r">>
min_pycor == <<"m", "i", "n", "-", "p", "y", "c", "o", "r">>
max_pycor == <<"m", "a", "x", "-", "p", "y", "c", "o", "r">>
ticks == <<"t", "i", "c", "k", "s">>
who == <<"w", "h", "o">>
color == <<"c", "o", "l", "o", "r">>
xcor == <<"x", "c", "o", "r">>
ycor == <<"y", "c", "o", "r">>

EmptyMap == [k \in {} |-> 0]

GlobalsFields ==
    (min_pxcor :> "i64") @@ (max_pxcor :> "i64") @@ (min_pycor :> "i64")
      @@ (max_pycor :> "i64") @@ (ticks :> "usize")

TurleFields ==
    (who :> "usize") @@ (color :> "usize") @@ (xcor :> "i64") @@ (ycor :> "i64")

PatchFields == EmptyMap

ParseField(type, cell) ==
    IF type = "usize" THEN ParseUnsigned(cell) ELSE ParseI64(cell)

----------------------------------------------------------------------------
(* record.deserialize(headers.as_ref()) for each target type                 *)

None == [some |-> FALSE, rec |-> <<>>]
Some(r) == [some |-> TRUE, rec |-> r]

DeErr == [ok |-> FALSE]
DeOk(v) == [ok |-> TRUE, val |-> v]

\* The derived visit_map of a struct with a #[serde(flatten)] custom map, fed
\* by the csv deserializer: one entry per header column; a fixed field is
\* parsed into its type, any other column is coerced and collected; a value
\* read past the end of the record, an unparsable or repeated fixed field
\* and, at the end, a fixed field without a column are errors. Fields of the
\* record beyond the last header column are never read.
RECURSIVE VisitMap(_, _, _, _, _, _)
VisitMap(fields, hdr, record, i, fixed, custom) ==
    IF i > Len(hdr)
    THEN IF DOMAIN fixed = DOMAIN fields
         THEN DeOk([fixed |-> fixed, custom |-> custom])
         ELSE DeErr
    ELSE IF i > Len(record) THEN DeErr
    ELSE IF hdr[i] \in DOMAIN fields
    THEN LET p == ParseField(fields[hdr[i]], record[i])
         IN  IF hdr[i] \in DOMAIN fixed \/ ~p.ok THEN DeErr
             ELSE VisitMap(fields, hdr, record, i + 1,
                           (hdr[i] :> p.v) @@ fixed, custom)
    ELSE VisitMap(fields, hdr, record, i + 1, fixed,
                  (hdr[i] :> Coerce(record[i])) @@ custom)

\* Globals, Turle, Patch: without headers the csv deserializer offers a
\* sequence, which the derived visitor of a flattened struct does not take
DeserializeStruct(fields, h, record) ==
    IF h.some THEN VisitMap(fields, h.rec, record, 1, EmptyMap, EmptyMap)
    ELSE DeErr

\* Vec<i64>: every field of the record, each parsed as i64
RECURSIVE VisitSeq(_, _)
VisitSeq(record, acc) ==
    IF record = <<>> THEN DeOk(acc)
    ELSE IF ~ParseI64(record[1]).ok THEN DeErr
    ELSE VisitSeq(Tail2(record), Append(acc, ParseI64(record[1]).v))

DeserializeVecI64(record) == VisitSeq(record, <<>>)

\* String and &str: the record's next (first) field
DeserializeString(record) ==
    IF record = <<>> THEN DeErr ELSE DeOk(record[1])

----------------------------------------------------------------------------
(* parse_output *)

Quote == "\""
Backslash == "\\"

RECURSIVE TrimStart(_)
TrimStart(s) ==
    IF s # <<>> /\ s[1] = Quote THEN TrimStart(Tail2(s)) ELSE s

RECURSIVE TrimEnd(_)
TrimEnd(s) ==
    IF s # <<>> /\ s[Len(s)] = Quote
    THEN TrimEnd(SubSeq(s, 1, Len(s) - 1)) ELSE s

\* faulty variant, for sensitivity: only the leading quotes are trimmed
trim_start_matches(s) == TrimStart(s)

trim_matches(s) == TrimEnd(TrimStart(s))

RECURSIVE SplitNl(_, _, _)
SplitNl(s, piece, acc) ==
    IF s = <<>> THEN Append(acc, piece)
    ELSE IF Len(s) >= 2 /\ s[1] = Backslash /\ s[2] = "n"
    THEN SplitNl(SubSeq(s, 3, Len(s)), <<>>, Append(acc, piece))
    ELSE SplitNl(Tail2(s), Append(piece, s[1]), acc)

parse_output(output) == SplitNl(trim_matches(output), <<>>, <<>>)

----------------------------------------------------------------------------
(* NetLogoWorld and the per-section arms of the match in parse               *)

DefaultGlobals ==
    [fixed |-> [k \in DOMAIN GlobalsFields |-> 0], custom |-> EmptyMap]

DefaultWorld ==
    [random_state |-> <<>>, globals |-> DefaultGlobals, output |-> <<>>,
     turtles |-> <<>>, patches |-> <<>>, links |-> <<>>, plots |-> "unit"]

\* the deserialize call of the arm taken for section sec
Bound(sec, h, record) ==
    CASE sec = "RandomState" -> DeserializeVecI64(record)
      [] sec = "Globals" -> DeserializeStruct(GlobalsFields, h, record)
      [] sec = "Turtles" -> DeserializeStruct(TurleFields, h, record)
      [] sec = "Output" -> DeserializeString(record)
      [] sec = "Patches" -> DeserializeStruct(PatchFields, h, record)
      [] sec = "Links" -> DeserializeString(record)
      [] OTHER -> DeOk(<<>>)

SetRandomState(w, v) == [w EXCEPT !.random_state = v]
\* faulty variant, for sensitivity: custom fields of the record before survive the assignment
SetGlobalsMerging(w, v) ==
    [w EXCEPT !.globals = [fixed |-> v.fixed, custom |-> v.custom @@ @.custom]]

SetGlobals(w, v) == [w EXCEPT !.globals = v]

\* faulty variant, for sensitivity: the record is put in front
PushTurtleFront(w, v) == [w EXCEPT !.turtles = <<v>> \o @]

PushTurtle(w, v) == [w EXCEPT !.turtles = Append(@, v)]
SetOutput(w, v) == [w EXCEPT !.output = parse_output(v)]
PushPatch(w, v) == [w EXCEPT !.patches = Append(@, v)]
PushLink(w, v) == [w EXCEPT !.links = Append(@, v)]

\* the assignment or push of the arm taken for section sec
Store(sec, w, v) ==
    CASE sec = "RandomState" -> SetRandomState(w, v)
      [] sec = "Globals" -> SetGlobals(w, v)
      [] sec = "Turtles" -> PushTurtle(w, v)
      [] sec = "Output" -> SetOutput(w, v)
      [] sec = "Patches" -> PushPatch(w, v)
      [] sec = "Links" -> PushLink(w, v)
      [] OTHER -> w

\* custom is a HashMap: it yields its entries in an order of its own, which
\* the insertions do not fix; any order of the keys can come out
Orders(keys) ==
    {o \in [1..Cardinality(keys) -> keys] :
        \A k \in keys : \E i \in 1..Cardinality(keys) : o[i] = k}

IterationOrders(sec, d) ==
    IF sec \in {"Globals", "Turtles", "Patches"} /\ family = "values"
    THEN Orders(DOMAIN d.val.custom) ELSE {<<>>}

----------------------------------------------------------------------------
(* The records a stream may hold, by family of input files *)

Cell1(c) == <<c>>
Minus1 == <<"-", "1">>
TrueCell == <<"t", "r", "u", "e">>

TurtleHdr == <<who, color, xcor, ycor>>
PatchHdr == <<Cell1("a"), Cell1("b")>>
GlobalsHdr == <<min_pxcor, max_pxcor, min_pycor, max_pycor, ticks>>
GlobalsHdrP == Append(GlobalsHdr, Cell1("p"))

Boundary(s) == <<WireName(s)>>

\* turtles, patches and links
AgentRows ==
    {Boundary("Turtles"), Boundary("Patches"), Boundary("Links"),
     TurtleHdr, PatchHdr,
     <<Cell1("0"), Cell1("5"), Cell1("1"), Minus1>>,
     <<Cell1("1"), Cell1("5"), Cell1("0"), Cell1("3"), Cell1("9")>>,
     <<Cell1("x"), Cell1("5"), Cell1("1"), Cell1("2")>>,
     <<Cell1("1"), TrueCell>>,
     <<Cell1("7")>>}

\* globals
GlobalsRows ==
    {Boundary("Globals"), Boundary("Plots"),
     GlobalsHdr, GlobalsHdrP,
     <<Minus1, Cell1("1"), Minus1, Cell1("1"), Cell1("0"), Cell1("6")>>,
     <<Cell1("0"), Cell1("2"), Cell1("0"), Cell1("2"), Cell1("3"), TrueCell>>,
     <<Cell1("0"), Cell1("2"), Cell1("0"), Cell1("2"), Minus1>>,
     <<Minus1, Cell1("1")>>}

\* output
OutputRows ==
    {Boundary("Output"), Boundary("Header"),
     <<<<Quote, "a", Backslash, "n", "b", Quote>>>>,
     <<<<"c">>>>,
     <<<<Quote, Quote, "d", Quote>>, Cell1("e")>>,
     <<<<>>>>}

\* section markers, recognised or not
MarkerRows ==
    {Boundary(s) : s \in Sections} \cup
    {<<WireName("Turtles"), Cell1("x")>>,    \* a wire token followed by a cell
     <<<<"l", "i", "n", "k", "s">>>>,        \* a wire token in lower case
     <<<<"F", "O", "O">>>>,                  \* a marker outside the vocabulary
     <<Cell1("1"), Cell1("2")>>}

\* cells of a custom column, in PATCHES
ValueCells ==
    {TrueCell, <<"f", "a", "l", "s", "e">>, <<"T", "r", "u", "e">>,
     Cell1("6"), <<"4", "2">>, <<"+", "6">>, Minus1, <<"-", "0">>,
     <<"3", ".", "1", "4">>, <<"1", "e", "5">>, <<"i", "n", "f">>,
     <<"a", "b", "c">>, <<"6", "x">>, Cell1("-"), <<>>}

ValueRows ==
    {Boundary("Patches"), PatchHdr, <<Cell1("1"), TrueCell>>}
      \cup {<<c>> : c \in ValueCells}

\* a line the tokenizer fails on (the reader yields no empty record)
BadLine == <<>>

\* the input both calls of a pair parse
PairRows ==
    {Boundary("Turtles"), Boundary("Links"), TurtleHdr,
     <<Cell1("0"), Cell1("5"), Cell1("1"), Minus1>>,
     <<Cell1("7")>>,
     BadLine}

FirstLine == <<<<"e", "x", "p", "o", "r", "t">>>>

Families == {"agents", "globals", "output", "markers", "values", "pair"}

RowsOf(f) ==
    CASE f = "agents" -> AgentRows
      [] f = "globals" -> GlobalsRows
      [] f = "output" -> OutputRows
      [] f = "markers" -> MarkerRows
      [] f = "values" -> ValueRows
      [] f = "pair" -> PairRows

MaxOf(f) ==
    CASE f = "agents" -> MaxAgentRows
      [] f = "globals" -> MaxGlobalsRows
      [] f = "output" -> MaxOutputRows
      [] f = "markers" -> MaxMarkerRows
      [] f = "values" -> MaxValueRows
      [] f = "pair" -> MaxPairRows

RECURSIVE SeqsUpTo(_, _)
SeqsUpTo(S, n) ==
    IF n = 0 THEN {<<>>}
    ELSE SeqsUpTo(S, n - 1)
           \cup {Append(s, x) : s \in {q \in SeqsUpTo(S, n - 1) : Len(q) = n - 1},
                                x \in S}

Files(f) == IF f = "pair" THEN SeqsUpTo(PairRows, MaxPairRows) ELSE {<<>>}

\* the record the reader hands out next: the file's, or any of the family
Rows ==
    IF family = "pair"
    THEN IF nrows < Len(file) THEN {file[nrows + 1]} \ {BadLine} ELSE {}
    ELSE RowsOf(family)

\* the first line of the input
FirstRows == IF family = "pair" THEN {FirstLine} ELSE RowsOf(family)

More == nrows < (IF family = "pair" THEN Len(file) ELSE MaxOf(family))

\* the tokenizer fails on the next line
Undecodable == family = "pair" => file[nrows + 1] = BadLine

\* the input has no further line
Exhausted == family = "pair" => nrows = Len(file)

----------------------------------------------------------------------------
(* parse *)

Pending == [kind |-> "Pending", snapshot |-> <<>>]
Ok(w) == [kind |-> "Ok", snapshot |-> <<w>>]
Err == [kind |-> "Err", snapshot |-> <<>>]
Panic == [kind |-> "Panic", snapshot |-> <<>>]

Took(kind, record) ==
    [kind |-> kind, row |-> record, sec |-> section, hdr |-> headers]

\* the locals of a call of parse
InitCall ==
    [pc |-> "start", section |-> "Header", headers |-> None,
     world |-> DefaultWorld, result |-> Pending, pos |-> 0]

Init ==
    /\ pc = "start"
    /\ section = "Header"
    /\ headers = None
    /\ world = DefaultWorld
    /\ result = Pending
    /\ nrows = 0
    /\ last = [kind |-> "none", row |-> <<>>, sec |-> "Header", hdr |-> None]
    /\ outAll = <<>>
    /\ nbound = [s \in Sections |-> 0]
    /\ iter = <<>>
    /\ family \in Families
    /\ file \in Files(family)
    /\ twin = InitCall

\* csv::ReaderBuilder::new() keeps has_headers at its default, true: the
\* reader takes the first record of the input as the csv header and
\* records() never yields it
CsvHeaders(record) ==
    /\ pc = "start"
    /\ pc' = "loop"
    /\ last' = Took("csvheaders", record)
    /\ UNCHANGED <<section, headers, world, result, nrows, outAll, nbound, iter, family, file, twin>>

\* record.expect("parse error") on a record the tokenizer failed on
TokenizerFails ==
    /\ pc = "loop"
    /\ More
    /\ Undecodable
    /\ pc' = "done"
    /\ result' = Panic
    /\ nrows' = nrows + 1
    /\ last' = Took("tokenizer", <<>>)
    /\ UNCHANGED <<section, headers, world, outAll, nbound, iter, family, file, twin>>

\* faulty variant, for sensitivity: a boundary naming the section already active keeps the header
NewSectionKeepsRepeated(record) ==
    /\ pc = "loop"
    /\ More
    /\ DeserializeSection(record) # NoSection
    /\ section' = DeserializeSection(record)
    /\ headers' = IF DeserializeSection(record) = section THEN headers ELSE None
    /\ nrows' = nrows + 1
    /\ last' = Took("section", record)
    /\ UNCHANGED <<pc, world, result, outAll, nbound, iter, family, file, twin>>

\* faulty variant, for sensitivity: entering TURTLES starts its vector afresh
NewSectionResets(record) ==
    /\ pc = "loop"
    /\ More
    /\ DeserializeSection(record) # NoSection
    /\ section' = DeserializeSection(record)
    /\ headers' = None
    /\ world' = IF DeserializeSection(record) = "Turtles"
                THEN [world EXCEPT !.turtles = <<>>] ELSE world
    /\ nrows' = nrows + 1
    /\ last' = Took("section", record)
    /\ UNCHANGED <<pc, result, outAll, nbound, iter, family, file, twin>>

\* the record deserializes as a Section
NewSection(record) ==
    /\ pc = "loop"
    /\ More
    /\ DeserializeSection(record) # NoSection
    /\ section' = DeserializeSection(record)
    /\ headers' = None
    /\ nrows' = nrows + 1
    /\ last' = Took("section", record)
    /\ UNCHANGED <<pc, world, result, outAll, nbound, iter, family, file, twin>>

\* faulty variant, for sensitivity: a single-cell row is taken for a marker and not kept as header
ReadHeaderSkipsMarker(record) ==
    /\ pc = "loop"
    /\ More
    /\ DeserializeSection(record) = NoSection
    /\ has_headers(section) /\ ~headers.some
    /\ headers' = IF Len(record) = 1 THEN None ELSE Some(record)
    /\ nrows' = nrows + 1
    /\ last' = Took("header", record)
    /\ UNCHANGED <<pc, section, world, result, outAll, nbound, iter, family, file, twin>>

\* No header? Read one.
ReadHeader(record) ==
    /\ pc = "loop"
    /\ More
    /\ DeserializeSection(record) = NoSection
    /\ has_headers(section) /\ ~headers.some
    /\ headers' = Some(record)
    /\ nrows' = nrows + 1
    /\ last' = Took("header", record)
    /\ UNCHANGED <<pc, section, world, result, outAll, nbound, iter, family, file, twin>>

\* faulty variant, for sensitivity: a record that fails to deserialize is skipped
BindRowSwallows(record) ==
    /\ pc = "loop"
    /\ More
    /\ DeserializeSection(record) = NoSection
    /\ ~(has_headers(section) /\ ~headers.some)
    /\ nrows' = nrows + 1
    /\ LET d == Bound(section, headers, record)
       IN  IF d.ok
           THEN /\ world' = Store(section, world, d.val)
                /\ outAll' = IF section = "Output"
                             THEN outAll \o parse_output(d.val) ELSE outAll
                /\ nbound' = [nbound EXCEPT ![section] = @ + 1]
                /\ iter' \in IterationOrders(section, d)
                /\ last' = Took("data", record)
           ELSE /\ last' = Took("failed", record)
                /\ UNCHANGED <<world, outAll, nbound, iter>>
    /\ UNCHANGED <<pc, result, section, headers, family, file, twin>>

\* match section { ... }: the record is deserialized and stored, or the
\* error of the deserialization is returned by `?`
BindRow(record) ==
    /\ pc = "loop"
    /\ More
    /\ DeserializeSection(record) = NoSection
    /\ ~(has_headers(section) /\ ~headers.some)
    /\ nrows' = nrows + 1
    /\ LET d == Bound(section, headers, record)
       IN  IF d.ok
           THEN /\ world' = Store(section, world, d.val)
                /\ outAll' = IF section = "Output"
                             THEN outAll \o parse_output(d.val) ELSE outAll
                /\ nbound' = [nbound EXCEPT ![section] = @ + 1]
                /\ iter' \in IterationOrders(section, d)
                /\ last' = Took("data", record)
                /\ UNCHANGED <<pc, result>>
           ELSE /\ pc' = "done"
                /\ result' = Err
                /\ last' = Took("failed", record)
                /\ UNCHANGED <<world, outAll, nbound, iter>>
    /\ UNCHANGED <<section, headers, family, file, twin>>

\* the records are exhausted: Ok(world)
EndOfStream ==
    /\ pc \in {"start", "loop"}
    /\ Exhausted
    /\ pc' = "done"
    /\ result' = Ok(world)
    /\ last' = Took("end", <<>>)
    /\ UNCHANGED <<section, headers, world, nrows, outAll, nbound, iter, family, file, twin>>

\* faulty variant, for sensitivity: the header cache is one for all calls
LoopBodySharedHeaders(st, record) ==
    IF DeserializeSection(record) # NoSection
    THEN [st EXCEPT !.section = DeserializeSection(record), !.headers = None,
                    !.pos = @ + 1]
    ELSE IF has_headers(st.section) /\ ~headers.some
    THEN [st EXCEPT !.headers = Some(record), !.pos = @ + 1]
    ELSE IF Bound(st.section, headers, record).ok
    THEN [st EXCEPT !.world = Store(st.section, @,
                                    Bound(st.section, headers, record).val),
                    !.pos = @ + 1]
    ELSE [st EXCEPT !.pc = "done", !.result = Err, !.pos = @ + 1]

\* the body of the loop of parse, on the locals st of a call
LoopBody(st, record) ==
    IF DeserializeSection(record) # NoSection
    THEN [st EXCEPT !.section = DeserializeSection(record), !.headers = None,
                    !.pos = @ + 1]
    ELSE IF has_headers(st.section) /\ ~st.headers.some
    THEN [st EXCEPT !.headers = Some(record), !.pos = @ + 1]
    ELSE IF Bound(st.section, st.headers, record).ok
    THEN [st EXCEPT !.world = Store(st.section, @,
                                    Bound(st.section, st.headers, record).val),
                    !.pos = @ + 1]
    ELSE [st EXCEPT !.pc = "done", !.result = Err, !.pos = @ + 1]

\* one step of a call of parse on the records recs
CallStep(st, recs) ==
    IF st.pc = "start" /\ recs # <<>> THEN [st EXCEPT !.pc = "loop"]
    ELSE IF st.pos = Len(recs)
    THEN [st EXCEPT !.pc = "done", !.result = Ok(st.world)]
    ELSE IF recs[st.pos + 1] = BadLine
    THEN [st EXCEPT !.pc = "done", !.result = Panic, !.pos = @ + 1]
    ELSE LoopBody(st, recs[st.pos + 1])

\* the second call takes a step, between any two steps of the first
TwinStep ==
    /\ family = "pair"
    /\ twin.pc # "done"
    /\ twin' = CallStep(twin, file)
    /\ UNCHANGED <<pc, section, headers, world, result, nrows, last, outAll,
                   nbound, iter, family, file>>

Next ==
    \/ \E record \in FirstRows : CsvHeaders(record)
    \/ TokenizerFails
    \/ \E record \in Rows : NewSection(record)
    \/ \E record \in Rows : ReadHeader(record)
    \/ \E record \in Rows : BindRow(record)
    \/ EndOfStream
    \/ TwinStep

Spec == Init /\ [][Next]_vars

----------------------------------------------------------------------------
(* Vocabulary of the properties *)

Range(s) == {s[i] : i \in 1..Len(s)}

IsWire(cell) == \E s \in Sections : cell = WireName(s)

HeaderSections == {"RandomState", "Globals", "Turtles", "Patches", "Links"}

\* this step handed a record to the loop body; last'.row is that record
Consumed == nrows' = nrows + 1 /\ last'.row # <<>>

\* the record of this step is no boundary and no header: it goes to the match
ConsumedAsData ==
    /\ Consumed
    /\ ~IsWire(last'.row[1])
    /\ ~(section \in HeaderSections /\ headers = None)

\* g is what header hdr (without repeated columns) and record row alone give
RecordOf(fields, hdr, row, g) ==
    /\ DOMAIN g.fixed = DOMAIN fields
    /\ DOMAIN g.custom = Range(hdr) \ DOMAIN fields
    /\ \A i \in 1..Len(hdr) :
          IF hdr[i] \in DOMAIN fields
          THEN g.fixed[hdr[i]] = ParseField(fields[hdr[i]], row[i]).v
          ELSE g.custom[hdr[i]] = Coerce(row[i])

IsPrefix(s, t) == Len(s) <= Len(t) /\ SubSeq(t, 1, Len(s)) = s

----------------------------------------------------------------------------
\* C1: every record whose first cell is a wire token, in whatever section and
\* with the header cached or not, makes the named section the active one and
\* empties the header cache (also when that section is already active), and
\* touches nothing of the snapshot; so no header survives a boundary.
C1_BoundaryResetsHeader ==
    [][\A s \in Sections :
          (Consumed /\ last'.row[1] = WireName(s))
            => /\ section' = s
               /\ headers' = None
               /\ result' = Pending
               /\ world' = world]_vars

\* TURTLES with a 4-column header and a row, then PATCHES with a 2-column
\* header and a row, parsed to the end
C1_TurtlesThenPatches ==
    /\ result.kind = "Ok"
    /\ Len(world.turtles) = 1
    /\ Len(world.patches) = 1
    /\ DOMAIN world.turtles[1].fixed = Range(TurtleHdr)
    /\ DOMAIN world.patches[1].custom = Range(PatchHdr)

----------------------------------------------------------------------------
\* C2: in RandomState, Globals, Turtles, Patches and Links the first record
\* after the boundary that is no boundary becomes the header and is not
\* bound; the header then stays as it is until the next boundary, and every
\* later record is bound against it (the stored record has exactly the
\* header's columns) or fails the parse. In Header, Output, Plots and
\* Extenstions the header cache stays empty. No record goes to the match in a
\* header-requiring section with the cache empty.
C2_Capture ==
    (Consumed /\ ~IsWire(last'.row[1])
       /\ section \in HeaderSections /\ headers = None)
      => /\ headers' = Some(last'.row)
         /\ section' = section
         /\ world' = world
         /\ nbound' = nbound
         /\ result' = Pending

C2_Stable ==
    headers.some
      => \/ headers' = headers
         \/ headers' = None /\ Consumed /\ IsWire(last'.row[1])

C2_BoundAgainstHeader ==
    (ConsumedAsData /\ headers.some)
      => \/ result'.kind = "Err"
         \/ /\ nbound'[section] = nbound[section] + 1
            /\ section = "Turtles"
                 => RecordOf(TurleFields, headers.rec, last'.row,
                             world'.turtles[Len(world'.turtles)])
            /\ section = "Patches"
                 => RecordOf(PatchFields, headers.rec, last'.row,
                             world'.patches[Len(world'.patches)])
            /\ section = "Globals"
                 => RecordOf(GlobalsFields, headers.rec, last'.row,
                             world'.globals)

C2_HeaderLifecycle ==
    /\ [](section \notin HeaderSections => headers = None)
    /\ []((last.kind \in {"data", "failed"} /\ last.sec \in HeaderSections)
            => last.hdr.some)
    /\ [][C2_Capture /\ C2_Stable /\ C2_BoundAgainstHeader]_vars

\* two records bound one after the other against the same PATCHES header
C2_TwoPatchesOneHeader ==
    /\ last.kind = "data"
    /\ last.sec = "Patches"
    /\ headers = Some(PatchHdr)
    /\ Len(world.patches) = 2

----------------------------------------------------------------------------
\* C3: after a successful parse, output is the concatenation, in file order,
\* of the pieces of every OUTPUT record.
C3_OutputIsConcatenation ==
    result.kind = "Ok" => result.snapshot[1].output = outAll

----------------------------------------------------------------------------
\* C4: turtles, patches and links hold one record per record bound in their
\* section, in the order bound: each bound record is appended at the end as
\* deserialized, every other step (boundaries, repeated ones too, and
\* headers) leaves the three sequences as they are, and Ok returns them.
C4_Step ==
    /\ IsPrefix(world.turtles, world'.turtles)
    /\ IsPrefix(world.patches, world'.patches)
    /\ IsPrefix(world.links, world'.links)
    /\ (ConsumedAsData /\ result'.kind # "Err" /\ section = "Turtles")
         => world'.turtles =
              Append(world.turtles,
                     DeserializeStruct(TurleFields, headers, last'.row).val)
    /\ (ConsumedAsData /\ result'.kind # "Err" /\ section = "Patches")
         => world'.patches =
              Append(world.patches,
                     DeserializeStruct(PatchFields, headers, last'.row).val)
    /\ (ConsumedAsData /\ result'.kind # "Err" /\ section = "Links")
         => world'.links = Append(world.links, last'.row[1])

C4_AgentsAppendInOrder ==
    /\ [](/\ Len(world.turtles) = nbound["Turtles"]
          /\ Len(world.patches) = nbound["Patches"]
          /\ Len(world.links) = nbound["Links"]
          /\ result.kind = "Ok" => result.snapshot[1] = world)
    /\ [][C4_Step]_vars

\* two different turtles, returned in the order of their rows
C4_TwoTurtlesInOrder ==
    /\ result.kind = "Ok"
    /\ Len(result.snapshot[1].turtles) = 2
    /\ result.snapshot[1].turtles[1].fixed[who] = 0
    /\ result.snapshot[1].turtles[2].fixed[who] = 1

----------------------------------------------------------------------------
\* C5: globals is the record bound from the last GLOBALS record alone, fixed
\* and custom fields, whatever was bound before it, in the same or in an
\* earlier GLOBALS section; without any GLOBALS record bound it is the
\* default record.
C5_GlobalsLastWriteWins ==
    /\ [](nbound["Globals"] = 0 => world.globals = DefaultGlobals)
    /\ []((last.kind = "data" /\ last.sec = "Globals")
            => RecordOf(GlobalsFields, last.hdr.rec, last.row, world.globals))
    /\ [](result.kind = "Ok" => result.snapshot[1].globals = world.globals)
    /\ [][nbound'["Globals"] = nbound["Globals"]
            => world'.globals = world.globals]_vars

\* a second GLOBALS record, bound in a section whose header has no custom
\* column, after a first that had one
C5_SecondGlobalsRecord ==
    /\ result.kind = "Ok"
    /\ nbound["Globals"] = 2
    /\ last.hdr = Some(GlobalsHdr)
    /\ world.globals.custom = EmptyMap
    /\ world.globals.fixed[ticks] = 3

----------------------------------------------------------------------------
\* C6: a record that goes to the match and fails to deserialize ends the
\* parse at that step with Err; Err carries no snapshot; and no step of that
\* parse follows.
C6_FirstFailureAborts ==
    /\ [](result.kind = "Err" => (pc = "done" /\ result.snapshot = <<>>))
    /\ [][/\ result.kind = "Err"
               => UNCHANGED <<pc, section, headers, world, result, nrows, last>>
          /\ (ConsumedAsData /\ ~Bound(section, headers, last'.row).ok)
               => (result' = Err /\ pc' = "done" /\ world' = world)]_vars

\* a TURTLES record whose `who` is no number has ended the parse
C6_BadWhoAborted ==
    /\ result.kind = "Err"
    /\ last.sec = "Turtles"
    /\ last.hdr = Some(TurtleHdr)
    /\ last.row[1] = Cell1("x")

----------------------------------------------------------------------------
\* C7: in Globals and Turtles a record that goes to the match with a number
\* of cells other than the header's (fewer or more) fails the parse.
C7_CellCountMismatchFails ==
    (last.kind \in {"data", "failed"} /\ last.sec \in {"Globals", "Turtles"}
       /\ Len(last.row) # Len(last.hdr.rec))
      => result.kind = "Err"

----------------------------------------------------------------------------
\* C8: a failure of the tokenizer on a record comes out of parse as Err.
C8_TokenizerFailureIsErr ==
    last.kind = "tokenizer" => result.kind = "Err"

----------------------------------------------------------------------------
\* C9: only a record of exactly one cell that is one of the nine wire tokens
\* is a boundary; any other record leaves the active section as it is and is
\* taken as header or data.
C9_OnlyBareTokensAreBoundaries ==
    (last.kind \in {"section", "header", "data", "failed"}
       /\ ~(Len(last.row) = 1 /\ IsWire(last.row[1])))
      => (last.kind # "section" /\ section = last.sec)

----------------------------------------------------------------------------
\* C10 as stated: after a single-cell record outside the wire vocabulary the
\* header cache is empty.
UnknownMarker(row) == Len(row) = 1 /\ ~IsWire(row[1])

C10_UnknownMarkerClearsHeader ==
    (last.kind \in {"header", "data", "failed"} /\ UnknownMarker(last.row))
      => headers = None

\* C10 as amended: a single-cell record outside the wire vocabulary never
\* clears the header cache nor changes the section: a cached header stays as
\* it is, and with the cache empty the record itself becomes the header in a
\* header-requiring section.
C10_UnknownMarkerIsOrdinaryRow ==
    [][(Consumed /\ UnknownMarker(last'.row))
         => /\ section' = section
            /\ headers.some => headers' = headers
            /\ (~headers.some /\ section \in HeaderSections)
                 => headers' = Some(last'.row)
            /\ (~headers.some /\ section \notin HeaderSections)
                 => headers' = None]_vars

\* an unknown marker was bound in LINKS and the header cached before it is
\* still cached
C10_HeaderSurvivesUnknownMarker ==
    /\ last.kind = "data"
    /\ last.row = <<<<"F", "O", "O">>>>
    /\ last.sec = "Links"
    /\ headers.some
    /\ headers = last.hdr

----------------------------------------------------------------------------
\* C11: a record the classifier does not recognise leaves the active section
\* as it is and is no error at classification: it becomes the header (the
\* section requires one, none is cached) without any failure, or it goes to
\* the match of the active section, where the parse fails only if its
\* deserialization fails. In Header, Plots and Extenstions it never fails.
C11_MissIsHeaderOrData ==
    [][(Consumed /\ ~IsWire(last'.row[1]))
         => /\ section' = section
            /\ pc' = "done" => result' = Err
            /\ (section \in HeaderSections /\ headers = None)
                 => (headers' = Some(last'.row) /\ result' = Pending)
            /\ ConsumedAsData
                 => /\ headers' = headers
                    /\ result' = IF Bound(section, headers, last'.row).ok
                                 THEN Pending ELSE Err
            /\ section \in {"Header", "Plots", "Extenstions"}
                 => result' = Pending]_vars

\* an unrecognised record went through the match in PLOTS and the parse goes on
C11_RowSkippedInPlots ==
    /\ last.kind = "data"
    /\ last.sec = "Plots"
    /\ last.row = <<Minus1, Cell1("1")>>
    /\ section = "Plots"
    /\ pc = "loop"

----------------------------------------------------------------------------
\* C12: every custom cell becomes exactly one Value, by the priority bool,
\* u64, i64, float, string: true and false (in this spelling only) are
\* Bool; a literal of digits is U64 with its value, never I64; '-' and
\* digits is I64; text that is no number and no boolean is String, as
\* written.
HasDigit(cell) == \E i \in 1..Len(cell) : cell[i] \in Digits

C12_Classified(cell, v) ==
    /\ v \in {BoolV(TRUE), BoolV(FALSE), U64V(v.n), I64V(v.n), FloatV(cell),
              StringV(cell)}
    /\ v.tag = "Bool" <=> cell \in {TrueCell, <<"f", "a", "l", "s", "e">>}
    /\ cell = TrueCell => v.b
    /\ cell = <<"f", "a", "l", "s", "e">> => ~v.b
    /\ AllDigits(cell) => v = U64V(DigitsValue(cell, 0))
    /\ (cell # <<>> /\ cell[1] = "-" /\ AllDigits(Tail2(cell)))
         => v = I64V(0 - DigitsValue(Tail2(cell), 0))
    /\ v.tag = "I64" => (cell # <<>> /\ cell[1] = "-")
    /\ v.tag \in {"U64", "I64", "Float"} => (HasDigit(cell) \/ cell = <<"i", "n", "f">>)
    /\ cell \in {<<"a", "b", "c">>, <<"6", "x">>, Cell1("-"), <<>>,
                 <<"T", "r", "u", "e">>}
         => v = StringV(cell)
    /\ cell \in {<<"3", ".", "1", "4">>, <<"1", "e", "5">>} => v = FloatV(cell)

\* the record stored by the latest step, which bound a record of sec
LastRecord(sec) ==
    CASE sec = "Globals" -> world.globals
      [] sec = "Turtles" -> world.turtles[Len(world.turtles)]
      [] sec = "Patches" -> world.patches[Len(world.patches)]

----------------------------------------------------------------------------
\* C13: the custom entries of a record bound in Globals, Turtles or Patches
\* are exactly the header's columns outside the section's fixed fields (all
\* columns in Patches), and custom holds them in the order of the header.
FieldsOf(sec) ==
    CASE sec = "Globals" -> GlobalsFields
      [] sec = "Turtles" -> TurleFields
      [] sec = "Patches" -> PatchFields

RECURSIVE CustomColumns(_, _)
CustomColumns(hdr, fields) ==
    IF hdr = <<>> THEN <<>>
    ELSE IF hdr[1] \in DOMAIN fields THEN CustomColumns(Tail2(hdr), fields)
    ELSE <<hdr[1]>> \o CustomColumns(Tail2(hdr), fields)

C13_CustomInHeaderOrder ==
    (last.kind = "data" /\ last.sec \in {"Globals", "Turtles", "Patches"})
      => /\ DOMAIN LastRecord(last.sec).custom
              = Range(CustomColumns(last.hdr.rec, FieldsOf(last.sec)))
         /\ DOMAIN LastRecord(last.sec).fixed = DOMAIN FieldsOf(last.sec)
         /\ family = "values"
              => iter = CustomColumns(last.hdr.rec, FieldsOf(last.sec))

----------------------------------------------------------------------------
\* C14: two calls of parse on the same input, their steps interleaved in any
\* order, have read the same locals whenever they stand at the same record,
\* and finish with the same outcome (the same snapshot, or both none).
C14_CallsDoNotInteract ==
    /\ (pc = "done" /\ twin.pc = "done") => twin.result = result
    /\ (family = "pair" /\ pc = "loop" /\ twin.pc = "loop" /\ twin.pos = nrows)
         => /\ twin.section = section
            /\ twin.headers = headers
            /\ twin.world = world

\* both calls are through a file with a turtle, with equal snapshots
C14_BothCallsReturned ==
    /\ pc = "done"
    /\ twin.pc = "done"
    /\ result.kind = "Ok"
    /\ twin.result = result
    /\ Len(result.snapshot[1].turtles) = 1

----------------------------------------------------------------------------
\* C15: a row of signed integers that follows the RANDOM_STATE boundary, as
\* its single row or as a later one, is what random_state holds, in cell
\* order, once the row is consumed.
C15_RowIsRandomState ==
    (/\ last.kind \in {"header", "data"}
     /\ last.sec = "RandomState"
     /\ DeserializeVecI64(last.row).ok)
        => world.random_state = DeserializeVecI64(last.row).val

----------------------------------------------------------------------------
\* C16: parse starts in section Header with no cached header and the default
\* world; a record that is no boundary, consumed while the section is Header,
\* Plots or Extenstions, leaves world, header cache and section as they were
\* and the parse goes on; plots is the unit placeholder in every state.
C16_SkippedSectionsAreInert ==
    /\ [](pc = "start"
            => section = "Header" /\ headers = None /\ world = DefaultWorld)
    /\ [](world.plots = "unit")
    /\ [][(/\ Consumed
           /\ ~IsWire(last'.row[1])
           /\ section \in {"Header", "Plots", "Extenstions"})
             => /\ world' = world
                /\ headers' = headers
                /\ section' = section
                /\ pc' = "loop"
                /\ result' = Pending]_vars

\* the first record of the file is no boundary and went by in section Header
C16_RowBeforeFirstBoundary ==
    /\ last.kind = "data"
    /\ last.sec = "Header"
    /\ nrows = 1
    /\ section = "Header"
    /\ headers = None
    /\ world = DefaultWorld

----------------------------------------------------------------------------
\* C17: a record taken as a boundary changes only section and header cache,
\* a record captured as header changes only the header cache; the world, the
\* result and the position in the loop are as before, so what an earlier visit
\* of a section stored is still there when the section is entered again.
C17_ControlRowsKeepWorld ==
    [][/\ (Consumed /\ IsWire(last'.row[1]))
            => /\ world' = world
               /\ pc' = pc
               /\ result' = result
               /\ headers' = None
       /\ (/\ Consumed
           /\ ~IsWire(last'.row[1])
           /\ section \in HeaderSections
           /\ headers = None)
            => /\ world' = world
               /\ section' = section
               /\ pc' = pc
               /\ result' = result]_vars

\* TURTLES is entered again with a turtle of an earlier visit in the world
C17_TurtlesRevisited ==
    /\ last.kind = "section"
    /\ last.sec # "Turtles"
    /\ section = "Turtles"
    /\ Len(world.turtles) >= 1

----------------------------------------------------------------------------
\* the pieces put together again with backslash-n between them
RECURSIVE C18_Join(_)
C18_Join(pieces) ==
    IF pieces = <<>> THEN <<>>
    ELSE IF Len(pieces) = 1 THEN pieces[1]
    ELSE pieces[1] \o <<Backslash, "n">> \o C18_Join(Tail(pieces))

C18_HasMarker(s) ==
    \E i \in 1..(Len(s) - 1) : s[i] = Backslash /\ s[i + 1] = "n"

\* the cell without one pair of surrounding quotes, if it has such a pair
C18_OnePairOff(cell) ==
    IF Len(cell) >= 2 /\ cell[1] = Quote /\ cell[Len(cell)] = Quote
    THEN SubSeq(cell, 2, Len(cell) - 1)
    ELSE cell

\* s is the cell without the quotes it starts with and the quotes it ends with
C18_AllQuotesOff(cell, s) ==
    \E i \in 1..(Len(cell) + 1) : \E j \in 0..Len(cell) :
        /\ s = SubSeq(cell, i, j)
        /\ \A k \in 1..(i - 1) : cell[k] = Quote
        /\ \A k \in (j + 1)..Len(cell) : cell[k] = Quote
        /\ s = <<>> \/ (s[1] # Quote /\ s[Len(s)] # Quote)

\* C18 as stated: the pieces of an OUTPUT row are those of its cell without
\* exactly one pair of surrounding quotes, further quotes being kept.
C18_OnePairStripped ==
    (last.kind = "data" /\ last.sec = "Output")
        => /\ C18_Join(world.output) = C18_OnePairOff(last.row[1])
           /\ \A i \in 1..Len(world.output) : ~C18_HasMarker(world.output[i])

\* C18, amended: the pieces of an OUTPUT row are those of its cell without
\* every quote it starts with and every quote it ends with (paired or not),
\* split at each backslash-n, in order; the first piece is the text before the
\* first backslash-n.
C18_AllQuotesStripped ==
    (last.kind = "data" /\ last.sec = "Output")
        => /\ world.output # <<>>
           /\ C18_AllQuotesOff(last.row[1], C18_Join(world.output))
           /\ \A i \in 1..Len(world.output) : ~C18_HasMarker(world.output[i])
           /\ IsPrefix(world.output[1], C18_Join(world.output))

\* a cell with two leading quotes and one trailing quote was split
C18_UnpairedQuotesGone ==
    /\ last.kind = "data"
    /\ last.sec = "Output"
    /\ last.row[1] = <<Quote, Quote, "d", Quote>>
    /\ world.output = <<<<"d">>>>

----------------------------------------------------------------------------
\* C19: a parse that is over either met the end of the input and returned the
\* world it accumulated, or met a failing record and returned an error; the
\* position in the input grows by one with every record and never goes back.
C19_EndsWithWorldOrError ==
    /\ [](pc = "done"
            => \/ (/\ result.kind = "Ok"
                   /\ result.snapshot = <<world>>
                   /\ last.kind = "end")
               \/ result.kind = "Err")
    /\ [][nrows' = nrows \/ nrows' = nrows + 1]_vars

====
